---- MODULE Spec2Model ----
(***************************************************************************)
(* Model of mcp_server/app.py: the FastAPI adapter that exposes the        *)
(* graphiti_mcp_server MCP instance over SSE.                              *)
(*                                                                         *)
(* The state is the process environment, the position of the startup hook  *)
(* (startup_event), the external module's config attribute, the log the    *)
(* hook writes, and the requests the framework has dispatched to the four  *)
(* route handlers.  The external collaborator (GraphitiConfig.from_env,    *)
(* initialize_graphiti, mcp.sse_handler) is not part of app.py: its        *)
(* behaviour is taken from the design document and is nondeterministic     *)
(* wherever the document leaves it open.                                   *)
(***************************************************************************)
EXTENDS Integers, Sequences, FiniteSets, TLC

VARIABLES
    env,          \* os.environ: a function whose DOMAIN is the set of set variables
    env2,         \* a second environment, equal to env except for the values of non-empty secrets
    pc,           \* position of startup_event
    config,       \* graphiti_mcp_server.config
    exc,          \* the exception thrown inside the try block, NoExc if none
    raised,       \* the exception that left startup_event, NoExc if none
    log,          \* records emitted through logger by startup_event, under env
    log2,         \* the records the same steps emit under env2
    loaderCalls,  \* number of calls of GraphitiConfig.from_env
    initCalls,    \* number of calls of graphiti_mcp_server.initialize_graphiti
    initConfig,   \* the value of graphiti_mcp_server.config at each initialize_graphiti call
    mcpState,     \* state of the external server object
    reqs,         \* the requests dispatched so far, by arrival order
    sseCalls,     \* the request objects passed to mcp.sse_handler, in call order
    handlerOut,   \* per request: what mcp.sse_handler produced for it
    responses     \* per request: what the adapter's route handler produced

vars == <<env, env2, pc, config, exc, raised, log, log2, loaderCalls, initCalls,
          initConfig, mcpState, reqs, sseCalls, handlerOut, responses>>

hookVars == <<pc, config, exc, raised, log, log2, loaderCalls, initCalls, initConfig, mcpState>>
reqVars == <<reqs, sseCalls, handlerOut, responses>>

\* ------------------------------------------------------------------ bounds

\* Number of requests the framework dispatches in one run.
MaxRequests == 2

\* ------------------------------------------------------------- environment

Unset == "<unset>"

RequiredVars == <<"OPENAI_API_KEY", "NEO4J_URI", "NEO4J_USER", "NEO4J_PASSWORD">>
SecretVars == {"OPENAI_API_KEY", "NEO4J_PASSWORD"}
EnvVars == {"OPENAI_API_KEY", "MODEL_NAME", "SMALL_MODEL_NAME", "NEO4J_URI", "NEO4J_USER",
            "NEO4J_PASSWORD", "SEMAPHORE_LIMIT", "LLM_TEMPERATURE"}

\* The values each variable is given in the checked environments (Unset: not in os.environ).
EnvChoices(v) ==
    CASE v = "OPENAI_API_KEY"   -> {Unset, "", "sk-A", "sk-B"}
      [] v = "NEO4J_PASSWORD"   -> {Unset, "", "pw-A", "pw-B"}
      [] v = "NEO4J_URI"        -> {Unset, "bolt://db:7687"}
      [] v = "NEO4J_USER"       -> {Unset, "neo4j-user"}
      [] v = "MODEL_NAME"       -> {Unset, "gpt-4.1"}
      [] v = "SMALL_MODEL_NAME" -> {Unset, "gpt-4.1-nano"}
      [] v = "SEMAPHORE_LIMIT"  -> {Unset, "5"}
      [] v = "LLM_TEMPERATURE"  -> {Unset, "0.7"}

MkEnv(c) == [v \in {w \in EnvVars : c[w] # Unset} |-> c[v]]

Envs ==
    { MkEnv([OPENAI_API_KEY |-> k, MODEL_NAME |-> m, SMALL_MODEL_NAME |-> s, NEO4J_URI |-> u,
             NEO4J_USER |-> n, NEO4J_PASSWORD |-> p, SEMAPHORE_LIMIT |-> l, LLM_TEMPERATURE |-> t]) :
        k \in EnvChoices("OPENAI_API_KEY"), m \in EnvChoices("MODEL_NAME"),
        s \in EnvChoices("SMALL_MODEL_NAME"), u \in EnvChoices("NEO4J_URI"),
        n \in EnvChoices("NEO4J_USER"), p \in EnvChoices("NEO4J_PASSWORD"),
        l \in EnvChoices("SEMAPHORE_LIMIT"), t \in EnvChoices("LLM_TEMPERATURE") }

\* os.environ.get(name, default)
EnvGet(e, name, default) == IF name \in DOMAIN e THEN e[name] ELSE default

\* truthiness of os.environ.get(name): set and not the empty string
EnvTruthy(e, name) == name \in DOMAIN e /\ e[name] # ""

\* e and f are the same environment but for the values of secrets that are non-empty in both
SameButSecretValues(e, f) ==
    /\ DOMAIN e = DOMAIN f
    /\ \A v \in DOMAIN e : e[v] # f[v] => (v \in SecretVars /\ e[v] # "" /\ f[v] # "")

\* --------------------------------------------------------------- the logger

Info(parts) == [level |-> "INFO", msg |-> parts]
Error(parts) == [level |-> "ERROR", msg |-> parts]

\* 'SET' if os.environ.get(name) else 'NOT SET'
Presence(e, name) == IF EnvTruthy(e, name) THEN "SET" ELSE "NOT SET"

\* Faulty variant of EnvCheckLines: NEO4J_PASSWORD is logged the way the
\* non-secret variables are.
EnvCheckLinesLeak(e) ==
    << Info(<<"Initializing Graphiti MCP Server with SSE transport for ChatGPT">>),
       Info(<<"Environment variable check:">>),
       Info(<<"  OPENAI_API_KEY: ", Presence(e, "OPENAI_API_KEY")>>),
       Info(<<"  MODEL_NAME: ", EnvGet(e, "MODEL_NAME", "NOT SET")>>),
       Info(<<"  SMALL_MODEL_NAME: ", EnvGet(e, "SMALL_MODEL_NAME", "NOT SET")>>),
       Info(<<"  NEO4J_URI: ", EnvGet(e, "NEO4J_URI", "NOT SET")>>),
       Info(<<"  NEO4J_USER: ", EnvGet(e, "NEO4J_USER", "NOT SET")>>),
       Info(<<"  NEO4J_PASSWORD: ", EnvGet(e, "NEO4J_PASSWORD", "NOT SET")>>),
       Info(<<"  SEMAPHORE_LIMIT: ", EnvGet(e, "SEMAPHORE_LIMIT", "DEFAULT (10)")>> ) >>

\* logger.info lines of startup_event before the try block
EnvCheckLines(e) ==
    << Info(<<"Initializing Graphiti MCP Server with SSE transport for ChatGPT">>),
       Info(<<"Environment variable check:">>),
       Info(<<"  OPENAI_API_KEY: ", Presence(e, "OPENAI_API_KEY")>>),
       Info(<<"  MODEL_NAME: ", EnvGet(e, "MODEL_NAME", "NOT SET")>>),
       Info(<<"  SMALL_MODEL_NAME: ", EnvGet(e, "SMALL_MODEL_NAME", "NOT SET")>>),
       Info(<<"  NEO4J_URI: ", EnvGet(e, "NEO4J_URI", "NOT SET")>>),
       Info(<<"  NEO4J_USER: ", EnvGet(e, "NEO4J_USER", "NOT SET")>>),
       Info(<<"  NEO4J_PASSWORD: ", Presence(e, "NEO4J_PASSWORD")>>),
       Info(<<"  SEMAPHORE_LIMIT: ", EnvGet(e, "SEMAPHORE_LIMIT", "DEFAULT (10)")>> ) >>

\* ------------------------------------------- the external collaborator

NoExc == [type |-> "None", msg |-> ""]

\* Documented defaults of the optional variables (the manifest's "default" entries).
DefaultModel == "gpt-4-turbo"
DefaultSmallModel == "gpt-4o-mini"
DefaultSemaphoreLimit == 10
DefaultTemperatureTenths == 0

\* int(...) and float(...) of the values the checked environments hold; a
\* temperature is kept in tenths.
ParseInt(s) == CASE s = "5" -> 5 [] s = "10" -> 10
ParseTenths(s) == CASE s = "0.7" -> 7 [] s = "0.0" -> 0
\* str(float)
FormatTenths(n) == CASE n = 0 -> "0.0" [] n = 7 -> "0.7"
\* str(bool)
FormatBool(b) == IF b THEN "True" ELSE "False"

\* The value of graphiti_mcp_server.config before the startup hook runs.
DefaultConfig ==
    [llm |-> [model |-> DefaultModel, small_model |-> DefaultSmallModel, api_key |-> "",
              temperature |-> DefaultTemperatureTenths],
     neo4j |-> [uri |-> "", user |-> "", password |-> ""],
     semaphore_limit |-> DefaultSemaphoreLimit]

MissingRequired(e) == {i \in 1..Len(RequiredVars) : RequiredVars[i] \notin DOMAIN e}

FirstMissing(e) ==
    RequiredVars[CHOOSE i \in MissingRequired(e) : \A j \in MissingRequired(e) : i <= j]

\* GraphitiConfig.from_env(): fails on the first required variable that is
\* absent, naming it; otherwise builds the configuration, optional variables
\* falling back to their defaults.
from_env(e) ==
    IF MissingRequired(e) # {}
    THEN [ok |-> FALSE, exc |-> [type |-> "ValueError", msg |-> FirstMissing(e)],
          config |-> DefaultConfig]
    ELSE [ok |-> TRUE, exc |-> NoExc,
          config |->
            [llm |-> [model |-> EnvGet(e, "MODEL_NAME", DefaultModel),
                      small_model |-> EnvGet(e, "SMALL_MODEL_NAME", DefaultSmallModel),
                      api_key |-> e["OPENAI_API_KEY"],
                      temperature |-> IF "LLM_TEMPERATURE" \in DOMAIN e
                                      THEN ParseTenths(e["LLM_TEMPERATURE"])
                                      ELSE DefaultTemperatureTenths],
             neo4j |-> [uri |-> e["NEO4J_URI"], user |-> e["NEO4J_USER"],
                        password |-> e["NEO4J_PASSWORD"]],
             semaphore_limit |-> IF "SEMAPHORE_LIMIT" \in DOMAIN e
                                 THEN ParseInt(e["SEMAPHORE_LIMIT"])
                                 ELSE DefaultSemaphoreLimit]]

\* The exceptions initialize_graphiti() may raise (unreachable database, bad credentials).
InitErrors ==
    { [type |-> "ServiceUnavailable", msg |-> "database unreachable"],
      [type |-> "AuthError", msg |-> "invalid credentials"] }

\* What mcp.sse_handler(request) may produce: a streamed response, or an exception.
SseOutcomes ==
    { [status |-> "ok", body |-> "event-stream", error |-> NoExc],
      [status |-> "error", body |-> "",
       error |-> [type |-> "RuntimeError", msg |-> "sse transport failure"]] }

\* ----------------------------------------------------------- startup_event

LoadingLine == Info(<<"Loading configuration from environment variables...">>)
LoadedLine == Info(<<"Configuration loaded successfully">>)
ReadyLine == Info(<<"Graphiti MCP Server ready - SSE endpoint available at /sse">>)

\* logger.info lines for the loaded configuration
ConfigLines(c) ==
    << Info(<<"Config - LLM Model: ", c.llm.model>>),
       Info(<<"Config - Small Model: ", c.llm.small_model>>),
       Info(<<"Config - Temperature: ", FormatTenths(c.llm.temperature)>>),
       Info(<<"Config - Neo4j URI: ", c.neo4j.uri>>),
       Info(<<"Config - API Key Present: ", FormatBool(c.llm.api_key # "")>>) >>

\* logger.error lines of the except block
ErrorLines(e) ==
    << Error(<<"Failed to initialize Graphiti: ", e.msg>>),
       Error(<<"Error type: ", e.type>>),
       Error(<<"Error details: ", e.msg>>) >>

\* the statements before the try block
StartupLogEnv ==
    /\ pc = "start"
    /\ log' = log \o EnvCheckLines(env)
    /\ log2' = log2 \o EnvCheckLines(env2)
    /\ pc' = "try"
    /\ UNCHANGED <<env, env2, config, exc, raised, loaderCalls, initCalls, initConfig, mcpState>>
    /\ UNCHANGED reqVars

\* Faulty variant of LoadConfig: the loaded configuration is not assigned to
\* graphiti_mcp_server.config.
LoadConfigNoAssign ==
    /\ pc = "try"
    /\ loaderCalls' = loaderCalls + 1
    /\ LET r == from_env(env) IN
         IF r.ok
         THEN /\ exc' = exc
              /\ log' = log \o <<LoadingLine, LoadedLine>>
              /\ log2' = log2 \o <<LoadingLine, LoadedLine>>
              /\ pc' = "loaded"
         ELSE /\ exc' = r.exc
              /\ log' = Append(log, LoadingLine)
              /\ log2' = Append(log2, LoadingLine)
              /\ pc' = "except"
    /\ UNCHANGED <<env, env2, config, raised, initCalls, initConfig, mcpState>>
    /\ UNCHANGED reqVars

\* Faulty variant of LoadConfig: a failure of the loader is ignored and the
\* hook goes on.
LoadConfigSwallow ==
    /\ pc = "try"
    /\ loaderCalls' = loaderCalls + 1
    /\ LET r == from_env(env) IN
         IF r.ok
         THEN /\ config' = r.config
              /\ log' = log \o <<LoadingLine, LoadedLine>>
              /\ log2' = log2 \o <<LoadingLine, LoadedLine>>
         ELSE /\ config' = config
              /\ log' = Append(log, LoadingLine)
              /\ log2' = Append(log2, LoadingLine)
    /\ pc' = "loaded"
    /\ UNCHANGED <<env, env2, exc, raised, initCalls, initConfig, mcpState>>
    /\ UNCHANGED reqVars

\* Faulty variant of LoadConfig: the config attribute is overwritten before
\* the loader is known to have succeeded.
LoadConfigClobber ==
    /\ pc = "try"
    /\ loaderCalls' = loaderCalls + 1
    /\ LET r == from_env(env) IN
         IF r.ok
         THEN /\ config' = r.config
              /\ exc' = exc
              /\ log' = log \o <<LoadingLine, LoadedLine>>
              /\ log2' = log2 \o <<LoadingLine, LoadedLine>>
              /\ pc' = "loaded"
         ELSE /\ config' = [DefaultConfig EXCEPT !.llm.api_key = EnvGet(env, "OPENAI_API_KEY", "missing")]
              /\ exc' = r.exc
              /\ log' = Append(log, LoadingLine)
              /\ log2' = Append(log2, LoadingLine)
              /\ pc' = "except"
    /\ UNCHANGED <<env, env2, raised, initCalls, initConfig, mcpState>>
    /\ UNCHANGED reqVars

\* graphiti_mcp_server.config = GraphitiConfig.from_env(), inside the try block
LoadConfig ==
    /\ pc = "try"
    /\ loaderCalls' = loaderCalls + 1
    /\ LET r == from_env(env) IN
         IF r.ok
         THEN /\ config' = r.config
              /\ exc' = exc
              /\ log' = log \o <<LoadingLine, LoadedLine>>
              /\ log2' = log2 \o <<LoadingLine, LoadedLine>>
              /\ pc' = "loaded"
         ELSE /\ config' = config
              /\ exc' = r.exc
              /\ log' = Append(log, LoadingLine)
              /\ log2' = Append(log2, LoadingLine)
              /\ pc' = "except"
    /\ UNCHANGED <<env, env2, raised, initCalls, initConfig, mcpState>>
    /\ UNCHANGED reqVars

\* the five "Config - ..." lines
LogLoadedConfig ==
    /\ pc = "loaded"
    /\ log' = log \o ConfigLines(config)
    /\ log2' = log2 \o ConfigLines(from_env(env2).config)
    /\ pc' = "init"
    /\ UNCHANGED <<env, env2, config, exc, raised, loaderCalls, initCalls, initConfig, mcpState>>
    /\ UNCHANGED reqVars

\* await graphiti_mcp_server.initialize_graphiti(): the call
CallInitialize ==
    /\ pc = "init"
    /\ initCalls' = initCalls + 1
    /\ initConfig' = Append(initConfig, config)
    /\ pc' = "awaiting"
    /\ UNCHANGED <<env, env2, config, exc, raised, log, log2, loaderCalls, mcpState>>
    /\ UNCHANGED reqVars

\* await graphiti_mcp_server.initialize_graphiti(): the initializer returns
InitializeReturns ==
    /\ pc = "awaiting"
    /\ mcpState' = "initialized"
    /\ pc' = "initialized"
    /\ UNCHANGED <<env, env2, config, exc, raised, log, log2, loaderCalls, initCalls, initConfig>>
    /\ UNCHANGED reqVars

\* await graphiti_mcp_server.initialize_graphiti(): the initializer raises
InitializeRaises ==
    /\ pc = "awaiting"
    /\ \E e \in InitErrors : exc' = e
    /\ mcpState' = "init_failed"
    /\ pc' = "except"
    /\ UNCHANGED <<env, env2, config, raised, log, log2, loaderCalls, initCalls, initConfig>>
    /\ UNCHANGED reqVars

\* the last statement of the try block; the hook returns
LogReady ==
    /\ pc = "initialized"
    /\ log' = Append(log, ReadyLine)
    /\ log2' = Append(log2, ReadyLine)
    /\ pc' = "ready"
    /\ UNCHANGED <<env, env2, config, exc, raised, loaderCalls, initCalls, initConfig, mcpState>>
    /\ UNCHANGED reqVars

\* Faulty variant of ExceptHandler: another exception is raised in place of
\* the one caught.
ExceptHandlerWrap ==
    /\ pc = "except"
    /\ log' = log \o ErrorLines(exc)
    /\ log2' = log2 \o ErrorLines(exc)
    /\ raised' = [type |-> "RuntimeError", msg |-> "startup failed"]
    /\ pc' = "failed"
    /\ UNCHANGED <<env, env2, config, exc, loaderCalls, initCalls, initConfig, mcpState>>
    /\ UNCHANGED reqVars

\* Faulty variant of ExceptHandler: the try block is entered again.
ExceptHandlerRetry ==
    /\ pc = "except"
    /\ log' = log \o ErrorLines(exc)
    /\ log2' = log2 \o ErrorLines(exc)
    /\ pc' = "try"
    /\ loaderCalls < 2
    /\ UNCHANGED <<env, env2, config, exc, raised, loaderCalls, initCalls, initConfig, mcpState>>
    /\ UNCHANGED reqVars

\* Faulty variant of ExceptHandler: the exception is logged and not raised.
ExceptHandlerSwallow ==
    /\ pc = "except"
    /\ log' = log \o ErrorLines(exc)
    /\ log2' = log2 \o ErrorLines(exc)
    /\ pc' = "ready"
    /\ UNCHANGED <<env, env2, config, exc, raised, loaderCalls, initCalls, initConfig, mcpState>>
    /\ UNCHANGED reqVars

\* except Exception as e: three logger.error lines, then raise
ExceptHandler ==
    /\ pc = "except"
    /\ log' = log \o ErrorLines(exc)
    /\ log2' = log2 \o ErrorLines(exc)
    /\ raised' = exc
    /\ pc' = "failed"
    /\ UNCHANGED <<env, env2, config, exc, loaderCalls, initCalls, initConfig, mcpState>>
    /\ UNCHANGED reqVars

startup_event ==
    \/ StartupLogEnv
    \/ LoadConfig
    \/ LogLoadedConfig
    \/ CallInitialize
    \/ InitializeReturns
    \/ InitializeRaises
    \/ LogReady
    \/ ExceptHandler

\* ------------------------------------------------------- the route handlers

NoResult == [status |-> "none", body |-> "", error |-> NoExc]
Ok(payload) == [status |-> "ok", body |-> payload, error |-> NoExc]

Request(id, method, path) == [id |-> id, method |-> method, path |-> path]

\* Faulty variant of root: the payload reports the state of the external server.
root_reads_server ==
    [ok |-> mcpState = "initialized", service |-> "graphiti-mcp", transport |-> "sse"]

\* def root()
root == [ok |-> TRUE, service |-> "graphiti-mcp", transport |-> "sse"]

\* def health()
health == [status |-> "healthy", service |-> "graphiti-mcp"]

\* Faulty variant of manifest_required: a required variable is left out.
manifest_required_short == <<"OPENAI_API_KEY", "NEO4J_URI", "NEO4J_USER">>

\* mcp_manifest(): environmentVariablesJsonSchema.required
manifest_required == <<"OPENAI_API_KEY", "NEO4J_URI", "NEO4J_USER", "NEO4J_PASSWORD">>

\* def mcp_manifest()
mcp_manifest ==
    [id |-> "graphiti-memory",
     name |-> "Graphiti Memory System",
     description |->
        "A temporally-aware knowledge graph for AI agents with episodic memory capabilities",
     attributes |->
        [version |-> "1.0.0",
         transport |-> "sse",
         endpoint |-> "/sse",
         capabilities |->
            <<"add_memory", "search_memory_nodes", "search_memory_facts", "delete_entity_edge",
              "delete_episode", "get_entity_edge", "get_episodes", "clear_graph">>],
     environmentVariablesJsonSchema |->
        [type |-> "object",
         required |-> manifest_required,
         properties |->
            [OPENAI_API_KEY |->
                [type |-> "string", description |-> "OpenAI API key for LLM operations"],
             NEO4J_URI |->
                [type |-> "string", description |-> "Neo4j database connection URI"],
             NEO4J_USER |->
                [type |-> "string", description |-> "Neo4j database username"],
             NEO4J_PASSWORD |->
                [type |-> "string", description |-> "Neo4j database password"],
             MODEL_NAME |->
                [type |-> "string", description |-> "LLM model name (e.g., gpt-4-turbo)",
                 default |-> "gpt-4-turbo"],
             SMALL_MODEL_NAME |->
                [type |-> "string", description |-> "Small LLM model for simple tasks",
                 default |-> "gpt-4o-mini"],
             SEMAPHORE_LIMIT |->
                [type |-> "integer", description |-> "Concurrent operations limit",
                 default |-> 10],
             \* the JSON number 0.0
             LLM_TEMPERATURE |->
                [type |-> "number", description |-> "LLM temperature setting",
                 default |-> 0]]]]

\* A request arrives and is routed to a handler that returns at once.
Respond(method, path, payload) ==
    /\ Len(reqs) < MaxRequests
    /\ LET r == Len(reqs) + 1 IN
         /\ reqs' = Append(reqs, Request(r, method, path))
         /\ responses' = [responses EXCEPT ![r] = Ok(payload)]
    /\ UNCHANGED <<sseCalls, handlerOut>>
    /\ UNCHANGED <<env, env2>>
    /\ UNCHANGED hookVars

\* @app.get("/")
GetRoot == Respond("GET", "/", root)

\* @app.get("/healthz")
GetHealthz == Respond("GET", "/healthz", health)

\* @app.get("/mcp/manifest.json")
GetManifest == Respond("GET", "/mcp/manifest.json", mcp_manifest)

\* handle_sse: the request is passed to graphiti_mcp_server.mcp.sse_handler
HandleSseCall ==
    /\ Len(reqs) < MaxRequests
    /\ \E method \in {"GET", "POST"} :
         LET req == Request(Len(reqs) + 1, method, "/sse") IN
           /\ reqs' = Append(reqs, req)
           /\ sseCalls' = Append(sseCalls, req)
    /\ UNCHANGED <<handlerOut, responses>>
    /\ UNCHANGED <<env, env2>>
    /\ UNCHANGED hookVars

\* Faulty variant of HandleSseReturn: an exception of the handler is replaced
\* by a response of the adapter's own.
HandleSseReturnSubstitute ==
    /\ \E r \in 1..Len(reqs) :
         /\ reqs[r].path = "/sse"
         /\ responses[r].status = "none"
         /\ \E out \in SseOutcomes :
              /\ handlerOut' = [handlerOut EXCEPT ![r] = out]
              /\ responses' = [responses EXCEPT ![r] =
                                 IF out.status = "error"
                                 THEN [status |-> "ok", body |-> "", error |-> NoExc]
                                 ELSE out]
    /\ UNCHANGED <<reqs, sseCalls>>
    /\ UNCHANGED <<env, env2>>
    /\ UNCHANGED hookVars

\* handle_sse: the awaited handler completes; its result, or its exception,
\* is what handle_sse produces
HandleSseReturn ==
    /\ \E r \in 1..Len(reqs) :
         /\ reqs[r].path = "/sse"
         /\ responses[r].status = "none"
         /\ \E out \in SseOutcomes :
              /\ handlerOut' = [handlerOut EXCEPT ![r] = out]
              /\ responses' = [responses EXCEPT ![r] = out]
    /\ UNCHANGED <<reqs, sseCalls>>
    /\ UNCHANGED <<env, env2>>
    /\ UNCHANGED hookVars

handle_sse == HandleSseCall \/ HandleSseReturn

\* ------------------------------------------------------------ the process

\* The ASGI server runs the startup hook to completion before it accepts
\* connections, and exits when the hook raises.
Serving == pc = "ready"

Init ==
    /\ env \in Envs
    /\ env2 \in {f \in Envs : SameButSecretValues(env, f)}
    /\ pc = "start"
    /\ config = DefaultConfig
    /\ exc = NoExc
    /\ raised = NoExc
    /\ log = <<>>
    /\ log2 = <<>>
    /\ loaderCalls = 0
    /\ initCalls = 0
    /\ initConfig = <<>>
    /\ mcpState = "uninitialized"
    /\ reqs = <<>>
    /\ sseCalls = <<>>
    /\ handlerOut = [r \in 1..MaxRequests |-> NoResult]
    /\ responses = [r \in 1..MaxRequests |-> NoResult]

Next ==
    \/ startup_event
    \/ Serving /\ GetRoot
    \/ Serving /\ GetHealthz
    \/ Serving /\ GetManifest
    \/ Serving /\ handle_sse

Spec == Init /\ [][Next]_vars

\* The handlers that do not touch the external server, called as plain
\* functions at any point of the hook (an ASGI host that runs no lifespan, or
\* a direct call).
NextDirect ==
    \/ startup_event
    \/ GetRoot
    \/ GetHealthz
    \/ GetManifest

SpecDirect == Init /\ [][NextDirect]_vars

\* ------------------------------------------------------------------ helpers

Range(s) == {s[i] : i \in 1..Len(s)}

\* The lifecycle state of the adapter process at each position of the hook.
Phase(p) ==
    CASE p \in {"start", "try"}               -> "STARTING"
      [] p \in {"loaded", "init", "awaiting"} -> "CONFIG_LOADED"
      [] p = "initialized"                    -> "INITIALIZED"
      [] p = "ready"                          -> "READY"
      [] p \in {"except", "failed"}           -> "FAILED"

\* The step dispatches a new request to the route `path`.
Dispatched(path) == Len(reqs') = Len(reqs) + 1 /\ reqs'[Len(reqs')].path = path

\* The step leaves the external server object and the configuration alone.
ExternalUntouched == UNCHANGED <<config, mcpState, loaderCalls, initCalls, initConfig,
                                 sseCalls, handlerOut>>

\* ------------------------------------------------------------------- claims

\* C1: the initializer is called only after from_env has returned and its
\* result has been assigned to graphiti_mcp_server.config; from_env is called
\* exactly once per startup; the initializer never sees the pre-startup config.
C1_ConfigBeforeInit ==
    /\ loaderCalls <= 1
    /\ pc \in {"ready", "failed"} => loaderCalls = 1
    /\ initCalls > 0 =>
         /\ loaderCalls = 1
         /\ from_env(env).ok
         /\ config = from_env(env).config
         /\ config # DefaultConfig
    /\ \A i \in 1..Len(initConfig) :
         initConfig[i] # DefaultConfig /\ initConfig[i] = from_env(env).config

C1_Witness == pc = "ready" /\ initCalls = 1 /\ Len(initConfig) = 1

\* C2: when exactly one required variable is absent from the environment, the
\* hook never gets past the loader, ends by raising, and never calls the
\* initializer.
C2_MissingRequiredFails ==
    \A i \in 1..Len(RequiredVars) :
        MissingRequired(env) = {i} =>
            /\ initCalls = 0
            /\ pc \in {"start", "try", "except", "failed"}
            /\ pc = "failed" => raised # NoExc

C2_Witness == pc = "failed" /\ MissingRequired(env) = {4} /\ loaderCalls = 1

\* C3: when the loader or the initializer raises, the hook logs the
\* exception's message and its type name and re-raises that same exception;
\* the ready line is never logged and the process never becomes ready.
C3_FailureLoggedAndReraised ==
    /\ exc # NoExc => pc \in {"except", "failed"} /\ ReadyLine \notin Range(log)
    /\ pc = "except" => exc # NoExc /\ raised = NoExc
    /\ pc = "failed" =>
         /\ exc # NoExc
         /\ raised = exc
         /\ \E i \in 1..Len(log) : log[i].level = "ERROR" /\ exc.msg \in Range(log[i].msg)
         /\ \E i \in 1..Len(log) : log[i].level = "ERROR" /\ exc.type \in Range(log[i].msg)
    /\ pc = "ready" => exc = NoExc /\ raised = NoExc

C3_Witness == pc = "failed" /\ exc \in InitErrors /\ raised = exc

\* C4: the process moves STARTING -> CONFIG_LOADED -> INITIALIZED -> READY,
\* or into FAILED from one of the two steps that can throw; nothing leaves
\* FAILED, and the loader and the initializer are each called at most once.
C4_Edges ==
    { <<"STARTING", "CONFIG_LOADED">>, <<"CONFIG_LOADED", "INITIALIZED">>,
      <<"INITIALIZED", "READY">>, <<"STARTING", "FAILED">>, <<"CONFIG_LOADED", "FAILED">> }

C4_StateMachine ==
    [][ /\ Phase(pc') # Phase(pc) => <<Phase(pc), Phase(pc')>> \in C4_Edges
        /\ pc = "failed" => pc' = "failed"
        /\ loaderCalls' <= 1
        /\ initCalls' <= 1 ]_vars

C4_Witness == pc = "failed" /\ initCalls = 1 /\ loaderCalls = 1

\* C5: a request is dispatched, passed to the external SSE handler or answered
\* only after the hook has completed without an exception.
C5_NoResponseBeforeReady ==
    (\/ Len(reqs) > 0
     \/ Len(sseCalls) > 0
     \/ \E r \in 1..MaxRequests : responses[r].status # "none")
    => (pc = "ready" /\ exc = NoExc /\ raised = NoExc /\ mcpState = "initialized")

C5_Witness ==
    /\ pc = "ready"
    /\ \E r \in 1..Len(reqs) : reqs[r].path = "/sse" /\ responses[r].status = "ok"

\* C6: GET / and GET /healthz answer with their fixed payloads in every state
\* of the external server and of the configuration, and the step that answers
\* neither calls nor changes the external server or the configuration.
C6_HealthPayloadsFixed ==
    [][ /\ Dispatched("/") =>
              /\ responses'[Len(reqs')] =
                    Ok([ok |-> TRUE, service |-> "graphiti-mcp", transport |-> "sse"])
              /\ ExternalUntouched
        /\ Dispatched("/healthz") =>
              /\ responses'[Len(reqs')] =
                    Ok([status |-> "healthy", service |-> "graphiti-mcp"])
              /\ ExternalUntouched ]_vars

C6_Witness ==
    /\ mcpState = "init_failed"
    /\ \E r \in 1..Len(reqs) : reqs[r].path = "/" /\ responses[r].status = "ok"
    /\ \E r \in 1..Len(reqs) : reqs[r].path = "/healthz" /\ responses[r].status = "ok"

C8_SchemaOk(doc) ==
    LET schema == doc.environmentVariablesJsonSchema
        props == schema.properties
    IN  /\ schema.required = <<"OPENAI_API_KEY", "NEO4J_URI", "NEO4J_USER", "NEO4J_PASSWORD">>
        /\ Range(schema.required) \subseteq DOMAIN props
        /\ \A k \in DOMAIN props : k \in Range(schema.required) <=> "default" \notin DOMAIN props[k]
        /\ DOMAIN props \ Range(schema.required) =
              {"MODEL_NAME", "SMALL_MODEL_NAME", "SEMAPHORE_LIMIT", "LLM_TEMPERATURE"}
        /\ props.SEMAPHORE_LIMIT.default = 10
        /\ props.LLM_TEMPERATURE.default = 0

C8_ManifestStatic ==
    [][ Dispatched("/mcp/manifest.json") =>
            /\ responses'[Len(reqs')].status = "ok"
            /\ C8_SchemaOk(responses'[Len(reqs')].body)
            /\ \A r \in 1..Len(reqs) :
                  reqs[r].path = "/mcp/manifest.json" => responses'[Len(reqs')] = responses[r]
            /\ ExternalUntouched ]_vars

C8_Witness ==
    /\ Len(reqs) = 2
    /\ \A r \in 1..2 : reqs[r].path = "/mcp/manifest.json" /\ responses[r].status = "ok"
    /\ mcpState = "uninitialized"

\* C9: each /sse request is passed to the external SSE handler exactly once,
\* unchanged; what the handler produced, response or exception, is what
\* handle_sse produces.
C9_SseForwarded ==
    /\ \A r \in 1..Len(reqs) :
          reqs[r].path = "/sse" =>
              /\ Cardinality({i \in 1..Len(sseCalls) : sseCalls[i] = reqs[r]}) = 1
              /\ responses[r] = handlerOut[r]
    /\ Len(sseCalls) = Cardinality({r \in 1..Len(reqs) : reqs[r].path = "/sse"})

C9_Witness ==
    \E r \in 1..Len(reqs) :
        /\ reqs[r].path = "/sse"
        /\ reqs[r].method = "POST"
        /\ responses[r].status = "error"
        /\ Len(sseCalls) = 2

\* C10: graphiti_mcp_server.config changes only in the hook's load step and
\* only to what a successful from_env returned; a failing from_env leaves it
\* as it was; no step after the hook has completed changes it.
C10_ConfigWrittenOnce ==
    [][ /\ config' # config =>
              pc = "try" /\ from_env(env).ok /\ config' = from_env(env).config
        /\ (pc = "try" /\ ~from_env(env).ok) => config' = config
        /\ pc = "ready" => config' = config ]_vars

C10_Witness ==
    /\ pc = "failed"
    /\ loaderCalls = 1
    /\ initCalls = 0
    /\ config = DefaultConfig

====
